---- MODULE Spec2Model ----
(***************************************************************************)
(* Warehouse (src/Warehouse.h): a catalog of products held in two indexes, *)
(* an unordered_map keyed by product id and a multimap keyed by producer,   *)
(* both guarded by one std::mutex.  Every public method is modelled as the  *)
(* sequence of its statements, one action per statement, so that the        *)
(* states between the two index updates of a call exist in the model.       *)
(*                                                                         *)
(* Product::Id and Product::Producer are strings in the code; only their    *)
(* equality and their order matter to the containers, so they are small     *)
(* integers here.  Product::name and Product::price are never read by the   *)
(* Warehouse and are left out.  A ProductPtr is the identity of the Product *)
(* object it points to (a handle), NullPtr being the empty pointer.         *)
(***************************************************************************)
EXTENDS Integers, Sequences, FiniteSets, TLC

\* ---------------------------------------------------------------- bounds
NumThreads == 2
NumProducts == 3
\* At most this many items are changed by their callers after creation.
MaxMutated == 1

Threads == 1..NumThreads
Handles == 1..NumProducts
Ids == 1..NumProducts
\* ------------------------------------------------------- program values
\* ProductPtr(): the empty smart pointer.
NullPtr == 0
\* container.end(): the past-the-end iterator of either index.
EndIt == 0
\* A default-constructed (singular) multimap iterator, as ProductWithMeta's
\* constructor leaves meta.it_productsByProducer.
SingularIt == -1
\* A producer no product has ("producer42" in the tests).
UnknownProducer == 3

Producers == {1, 2, UnknownProducer}

VARIABLES
    heap,                    \* Product objects made by the callers: handle -> [id, producer]
    mMutex,                  \* 0 when free, else the thread that owns it
    mProductsByProducer,     \* multimap: sequence of nodes [key, ptr, node], ordered by key
    mProductsWithMetasById,  \* unordered_map: id -> [pProduct, it_productsByProducer]
    pc,                      \* each thread's position
    arg,                     \* each thread's argument (a handle, an id or a producer)
    it,                      \* local `it`: an iterator into mProductsWithMetasById (its key)
    success,                 \* AddProduct's local `success`
    range,                   \* FindProductsByProducer's local `range` [first, second]
    out,                     \* what FindProductsByProducer has written through `out`
    cntFound,                \* FindProductsByProducer's local `cntFound`
    ret,                     \* value about to be returned (a pointer or a count)
    ub,                      \* an invalid iterator has been used
    useCount,                \* shared_ptr use count of each Product object (0: no object)
    present,                 \* history: id -> handle of the last successful add not yet removed
    atLock                   \* history: both indexes as they were when the lock was taken

vars == <<heap, mMutex, mProductsByProducer, mProductsWithMetasById, pc, arg, it,
          success, range, out, cntFound, ret, ub, useCount, present, atLock>>

locals == <<it, success, range, out, cntFound, ret>>
indexes == <<mProductsByProducer, mProductsWithMetasById>>

\* --------------------------------------------------------------- Product
\* The products of the general specification: two ids and two producers are
\* shared among the handles (1: id1 of producer1, 2: id2 of producer1,
\* 3: id1 of producer2, 4: id2 of producer2, ...), so that handles collide
\* on id with different producers and share a producer with different ids.
\* The last id of Ids belongs to no product ("id42" in the tests).
ProductTable ==
    [h \in Handles |-> [id |-> ((h - 1) % 2) + 1,
                        producer |-> (((h - 1) \div 2) % 2) + 1]]

\* The products of Scenario E: pairwise distinct ids, one producer.
ProductTableE ==
    [h \in Handles |-> [id |-> h, producer |-> 1]]

\* ------------------------------------------------------------- std::multimap
\* Index of the first node whose key is not less than k (Len + 1 if none).
LowerBound(mm, k) ==
    Cardinality({i \in 1..Len(mm) : mm[i].key < k}) + 1

\* Index of the first node whose key is greater than k (Len + 1 if none).
UpperBound(mm, k) ==
    Cardinality({i \in 1..Len(mm) : mm[i].key <= k}) + 1

\* The iterator designating position i.
IterAt(mm, i) ==
    IF i \in 1..Len(mm) THEN mm[i].node ELSE EndIt

\* Whether iterator n designates a node of the container.
IsNode(mm, n) ==
    \E i \in 1..Len(mm) : mm[i].node = n

IndexOf(mm, n) ==
    CHOOSE i \in 1..Len(mm) : mm[i].node = n

\* The address of a newly allocated node: one no live node has.
NewNode(mm) ==
    CHOOSE n \in 1..(Len(mm) + 1) : ~IsNode(mm, n)

\* Mutant: std::map in place of std::multimap, a key is stored once.
MultimapEmplace_UniqueKey(mm, k, p) ==
    IF \E i \in 1..Len(mm) : mm[i].key = k
    THEN mm
    ELSE LET pos == Cardinality({i \in 1..Len(mm) : mm[i].key <= k}) + 1
         IN  SubSeq(mm, 1, pos - 1)
               \o <<[key |-> k, ptr |-> p,
                     node |-> CHOOSE n \in 1..(Len(mm) + 1) :
                                 \A i \in 1..Len(mm) : mm[i].node # n]>>
               \o SubSeq(mm, pos, Len(mm))

\* multimap::emplace(k, p): the new node goes after the last node of key k.
MultimapEmplace(mm, k, p) ==
    LET pos == UpperBound(mm, k)
    IN  SubSeq(mm, 1, pos - 1)
          \o <<[key |-> k, ptr |-> p, node |-> NewNode(mm)]>>
          \o SubSeq(mm, pos, Len(mm))

\* Mutant: erase leaves the node in the container.
MultimapErase_Keeps(mm, n) ==
    mm

\* multimap::erase(iterator) of a valid iterator.
MultimapErase(mm, n) ==
    SelectSeq(mm, LAMBDA e : e.node # n)

\* Mutant: the range runs to end() instead of to the upper bound of k.
EqualRange_ToEnd(mm, k) ==
    [first |-> IterAt(mm, LowerBound(mm, k)), second |-> EndIt]

\* multimap::equal_range(k)
EqualRange(mm, k) ==
    [first |-> IterAt(mm, LowerBound(mm, k)),
     second |-> IterAt(mm, UpperBound(mm, k))]

\* ------------------------------------------------------- std::unordered_map
\* ProductWithMeta(pProduct): meta is default-initialised.
ProductWithMeta(p) ==
    [pProduct |-> p, it_productsByProducer |-> SingularIt]

\* unordered_map::find(id): the iterator is the key, or end().
MapFind(m, id) ==
    IF id \in DOMAIN m THEN id ELSE EndIt

\* Mutant: insert_or_assign, an existing key's element is overwritten.
MapEmplace_Assign(m, id, v) ==
    [k \in DOMAIN m \cup {id} |-> IF k = id THEN v ELSE m[k]]

\* unordered_map::emplace(id, v): the map afterwards; an existing key is kept.
MapEmplace(m, id, v) ==
    IF id \in DOMAIN m THEN m
    ELSE [k \in DOMAIN m \cup {id} |-> IF k = id THEN v ELSE m[k]]

\* Mutant: the element is not erased.
MapErase_Keeps(m, i) ==
    m

\* unordered_map::erase(iterator)
MapErase(m, i) ==
    [k \in DOMAIN m \ {i} |-> m[k]]

EmptyMap == [k \in {} |-> NullPtr]

\* What FindProductById's find and return expression yield for id in map m.
LookupById(m, id) ==
    IF MapFind(m, id) # EndIt THEN m[id].pProduct ELSE NullPtr

\* The pointers FindProductsByProducer's loop visits for producer p in mm:
\* those of the nodes from equal_range's first up to its second.
GroupOf(mm, p) ==
    {mm[i].ptr : i \in LowerBound(mm, p)..(UpperBound(mm, p) - 1)}

\* ------------------------------------------------------- std::shared_ptr
\* The use counts after a copy of pointer h is made (copying an empty
\* pointer counts nothing).
Copied(uc, h) ==
    IF h = NullPtr THEN uc ELSE [uc EXCEPT ![h] = @ + 1]

\* The use counts after a pointer h is destroyed; the object is destroyed
\* with its last pointer (count 0).
Dropped(uc, h) ==
    IF h = NullPtr THEN uc ELSE [uc EXCEPT ![h] = @ - 1]

\* The use counts after every pointer of sequence s is destroyed.
DroppedAll(uc, s) ==
    [h \in Handles |-> uc[h] - Cardinality({i \in 1..Len(s) : s[i] = h})]

\* The use counts after the multimap went from mm to mm2: each node holds
\* one pointer, made with the node and destroyed with it.
NodesChanged(uc, mm, mm2) ==
    [h \in Handles |->
        uc[h] + Cardinality({i \in 1..Len(mm2) : mm2[i].ptr = h})
              - Cardinality({i \in 1..Len(mm) : mm[i].ptr = h})]

\* ------------------------------------------------------------------ Init
NoRange == [first |-> EndIt, second |-> EndIt]
NoIndexes == <<>>

InitLocals ==
    /\ pc = [t \in Threads |-> "idle"]
    /\ arg = [t \in Threads |-> 0]
    /\ it = [t \in Threads |-> EndIt]
    /\ success = [t \in Threads |-> FALSE]
    /\ range = [t \in Threads |-> NoRange]
    /\ out = [t \in Threads |-> <<>>]
    /\ cntFound = [t \in Threads |-> 0]
    /\ ret = [t \in Threads |-> 0]

InitWarehouse ==
    /\ mMutex = 0
    /\ mProductsByProducer = <<>>
    /\ mProductsWithMetasById = EmptyMap
    /\ ub = FALSE
    /\ useCount = [h \in Handles |-> 0]
    /\ present = [i \in Ids |-> NullPtr]
    /\ atLock = NoIndexes

Init ==
    /\ heap = ProductTable
    /\ InitWarehouse
    /\ InitLocals

\* ------------------------------------------------------ std::lock_guard
\* Mutant: a lock that does not wait for the mutex to be free.
Lock_NoWait(t, next) ==
    /\ mMutex' = t
    /\ pc' = [pc EXCEPT ![t] = next]
    /\ atLock' = <<mProductsByProducer, mProductsWithMetasById>>

\* std::lock_guard<std::mutex> lock(mMutex): blocks until the mutex is free.
Lock(t, next) ==
    /\ mMutex = 0
    /\ mMutex' = t
    /\ pc' = [pc EXCEPT ![t] = next]
    /\ atLock' = <<mProductsByProducer, mProductsWithMetasById>>

\* ~lock_guard at the return: the mutex is released and the frame's locals die.
Unlock(t) ==
    /\ mMutex' = 0
    /\ atLock' = NoIndexes
    /\ pc' = [pc EXCEPT ![t] = "idle"]
    /\ arg' = [arg EXCEPT ![t] = 0]
    /\ it' = [it EXCEPT ![t] = EndIt]
    /\ success' = [success EXCEPT ![t] = FALSE]
    /\ range' = [range EXCEPT ![t] = NoRange]
    /\ out' = [out EXCEPT ![t] = <<>>]
    /\ cntFound' = [cntFound EXCEPT ![t] = 0]
    /\ ret' = [ret EXCEPT ![t] = 0]

\* A thread calls a method with argument a.
Call(t, a, next) ==
    /\ pc' = [pc EXCEPT ![t] = next]
    /\ arg' = [arg EXCEPT ![t] = a]
    /\ UNCHANGED <<heap, mMutex, indexes, locals, ub, present, atLock>>

\* ------------------------------------------------------------ AddProduct
AddProductCall(t) ==
    /\ pc[t] = "idle"
    /\ \E h \in Handles :
          /\ Call(t, h, "add_lock")
          /\ useCount' = Copied(useCount, h)

AddProductLock(t) ==
    /\ pc[t] = "add_lock"
    /\ Lock(t, "add_emplaceById")
    /\ UNCHANGED <<heap, useCount, indexes, arg, locals, ub, present>>

\* Mutant: the `if(success)` is missing, the secondary index is updated
\* whether or not the id was new.
AddProductEmplaceById_NoSuccessCheck(t) ==
    /\ pc[t] = "add_emplaceById"
    /\ arg[t] # NullPtr
    /\ LET id == heap[arg[t]].id
       IN  /\ mProductsWithMetasById' =
                 MapEmplace(mProductsWithMetasById, id, ProductWithMeta(arg[t]))
           /\ it' = [it EXCEPT ![t] = id]
           /\ success' = [success EXCEPT ![t] = id \notin DOMAIN mProductsWithMetasById]
           /\ pc' = [pc EXCEPT ![t] = "add_emplaceByProducer"]
    /\ useCount' = IF heap[arg[t]].id \notin DOMAIN mProductsWithMetasById
                   THEN Copied(useCount, arg[t])
                   ELSE useCount
    /\ UNCHANGED <<heap, mMutex, mProductsByProducer, arg, range, out, cntFound, ret,
                   ub, present, atLock>>

\* auto [it, success] = mProductsWithMetasById.emplace(pProduct->id, ProductWithMeta(pProduct));
\* if(success) ...
\* Mutant: the call reports success whether or not the id was new.
AddProductEmplaceById_AlwaysTrue(t) ==
    /\ pc[t] = "add_emplaceById"
    /\ arg[t] # NullPtr
    /\ LET id == heap[arg[t]].id
           inserted == id \notin DOMAIN mProductsWithMetasById
       IN  /\ mProductsWithMetasById' =
                 MapEmplace(mProductsWithMetasById, id, ProductWithMeta(arg[t]))
           /\ it' = [it EXCEPT ![t] = id]
           /\ success' = [success EXCEPT ![t] = TRUE]
           /\ pc' = [pc EXCEPT ![t] =
                        IF inserted THEN "add_emplaceByProducer" ELSE "add_return"]
    /\ useCount' = IF heap[arg[t]].id \notin DOMAIN mProductsWithMetasById
                   THEN Copied(useCount, arg[t])
                   ELSE useCount
    /\ UNCHANGED <<heap, mMutex, mProductsByProducer, arg, range, out, cntFound, ret,
                   ub, present, atLock>>

AddProductEmplaceById(t) ==
    /\ pc[t] = "add_emplaceById"
    /\ arg[t] # NullPtr
    /\ LET id == heap[arg[t]].id
           inserted == id \notin DOMAIN mProductsWithMetasById
       IN  /\ mProductsWithMetasById' =
                 MapEmplace(mProductsWithMetasById, id, ProductWithMeta(arg[t]))
           /\ it' = [it EXCEPT ![t] = id]
           /\ success' = [success EXCEPT ![t] = inserted]
           /\ pc' = [pc EXCEPT ![t] =
                        IF inserted THEN "add_emplaceByProducer" ELSE "add_return"]
    /\ useCount' = IF heap[arg[t]].id \notin DOMAIN mProductsWithMetasById
                   THEN Copied(useCount, arg[t])
                   ELSE useCount
    /\ UNCHANGED <<heap, mMutex, mProductsByProducer, arg, range, out, cntFound, ret,
                   ub, present, atLock>>

\* it->second.meta.it_productsByProducer =
\*     mProductsByProducer.emplace(pProduct->producer, pProduct);
\* Mutant: the iterator emplace returns is not stored in the primary entry.
AddProductEmplaceByProducer_NoBackRef(t) ==
    /\ pc[t] = "add_emplaceByProducer"
    /\ arg[t] # NullPtr
    /\ mProductsByProducer' =
          MultimapEmplace(mProductsByProducer, heap[arg[t]].producer, arg[t])
    /\ useCount' = Copied(useCount, arg[t])
    /\ pc' = [pc EXCEPT ![t] = "add_return"]
    /\ UNCHANGED <<heap, mMutex, mProductsWithMetasById, arg, locals, ub, present, atLock>>

AddProductEmplaceByProducer(t) ==
    /\ pc[t] = "add_emplaceByProducer"
    /\ arg[t] # NullPtr
    /\ mProductsByProducer' =
          MultimapEmplace(mProductsByProducer, heap[arg[t]].producer, arg[t])
    /\ IF it[t] \in DOMAIN mProductsWithMetasById
       THEN /\ mProductsWithMetasById' =
                  [mProductsWithMetasById EXCEPT
                      ![it[t]].it_productsByProducer = NewNode(mProductsByProducer)]
            /\ ub' = ub
       ELSE /\ mProductsWithMetasById' = mProductsWithMetasById
            /\ ub' = TRUE
    /\ useCount' = Copied(useCount, arg[t])
    /\ pc' = [pc EXCEPT ![t] = "add_return"]
    /\ UNCHANGED <<heap, mMutex, arg, locals, present, atLock>>

\* return success;
AddProductReturn(t) ==
    /\ pc[t] = "add_return"
    /\ present' = IF success[t]
                  THEN [present EXCEPT ![it[t]] = arg[t]]
                  ELSE present
    /\ useCount' = Dropped(useCount, arg[t])
    /\ Unlock(t)
    /\ UNCHANGED <<heap, indexes, ub>>

\* ------------------------------------------------------- FindProductById
FindProductByIdCall(t) ==
    /\ pc[t] = "idle"
    /\ \E id \in Ids : Call(t, id, "fid_lock")
    /\ UNCHANGED useCount

FindProductByIdLock(t) ==
    /\ pc[t] = "fid_lock"
    /\ Lock(t, "fid_find")
    /\ UNCHANGED <<heap, useCount, indexes, arg, locals, ub, present>>

\* auto it = mProductsWithMetasById.find(id);
\* return (it != mProductsWithMetasById.end())? it->second.pProduct : ProductPtr();
\* Mutant: the lookup uses operator[], which default-constructs an element
\* for an id that is not stored.
FindProductByIdFind_Subscript(t) ==
    /\ pc[t] = "fid_find"
    /\ mProductsWithMetasById' =
          MapEmplace(mProductsWithMetasById, arg[t], ProductWithMeta(NullPtr))
    /\ it' = [it EXCEPT ![t] = arg[t]]
    /\ ret' = [ret EXCEPT ![t] = LookupById(mProductsWithMetasById, arg[t])]
    /\ useCount' = Copied(useCount, LookupById(mProductsWithMetasById, arg[t]))
    /\ pc' = [pc EXCEPT ![t] = "fid_return"]
    /\ UNCHANGED <<heap, mMutex, mProductsByProducer, arg, success, range, out, cntFound,
                   ub, present, atLock>>

\* Mutant: the lookup hands out the stored pointer without copying it.
FindProductByIdFind_NoCopy(t) ==
    /\ pc[t] = "fid_find"
    /\ it' = [it EXCEPT ![t] = MapFind(mProductsWithMetasById, arg[t])]
    /\ ret' = [ret EXCEPT ![t] = LookupById(mProductsWithMetasById, arg[t])]
    /\ pc' = [pc EXCEPT ![t] = "fid_return"]
    /\ UNCHANGED <<heap, useCount, mMutex, indexes, arg, success, range, out, cntFound,
                   ub, present, atLock>>

FindProductByIdFind(t) ==
    /\ pc[t] = "fid_find"
    /\ it' = [it EXCEPT ![t] = MapFind(mProductsWithMetasById, arg[t])]
    /\ ret' = [ret EXCEPT ![t] = LookupById(mProductsWithMetasById, arg[t])]
    /\ useCount' = Copied(useCount, LookupById(mProductsWithMetasById, arg[t]))
    /\ pc' = [pc EXCEPT ![t] = "fid_return"]
    /\ UNCHANGED <<heap, mMutex, indexes, arg, success, range, out, cntFound,
                   ub, present, atLock>>

FindProductByIdReturn(t) ==
    /\ pc[t] = "fid_return"
    /\ useCount' = Dropped(useCount, ret[t])
    /\ Unlock(t)
    /\ UNCHANGED <<heap, indexes, ub, present>>

\* ------------------------------------------------ FindProductsByProducer
FindProductsByProducerCall(t) ==
    /\ pc[t] = "idle"
    /\ \E p \in Producers : Call(t, p, "fbp_lock")
    /\ UNCHANGED useCount

\* Mutant: FindProductsByProducer takes no lock.
FindProductsByProducerLock_NoLock(t) ==
    /\ pc[t] = "fbp_lock"
    /\ pc' = [pc EXCEPT ![t] = "fbp_equalRange"]
    /\ atLock' = <<mProductsByProducer, mProductsWithMetasById>>
    /\ UNCHANGED <<heap, useCount, mMutex, indexes, arg, locals, ub, present>>

FindProductsByProducerLock(t) ==
    /\ pc[t] = "fbp_lock"
    /\ Lock(t, "fbp_equalRange")
    /\ UNCHANGED <<heap, useCount, indexes, arg, locals, ub, present>>

\* auto range = mProductsByProducer.equal_range(producer);  size_t cntFound = 0;
FindProductsByProducerEqualRange(t) ==
    /\ pc[t] = "fbp_equalRange"
    /\ range' = [range EXCEPT ![t] = EqualRange(mProductsByProducer, arg[t])]
    /\ cntFound' = [cntFound EXCEPT ![t] = 0]
    /\ pc' = [pc EXCEPT ![t] = "fbp_loop"]
    /\ UNCHANGED <<heap, useCount, mMutex, indexes, arg, it, success, out, ret, ub, present, atLock>>

\* while(range.first != range.second) { *out++ = (range.first++)->second; cntFound++; }
\* One iteration.  Going through an iterator that designates no node is
\* undefined: any pointer may be read and the walk may continue anywhere.
FindProductsByProducerCopy(t) ==
    /\ pc[t] = "fbp_loop"
    /\ range[t].first # range[t].second
    /\ IF IsNode(mProductsByProducer, range[t].first)
       THEN LET i == IndexOf(mProductsByProducer, range[t].first)
            IN  /\ out' = [out EXCEPT ![t] = Append(@, mProductsByProducer[i].ptr)]
                /\ useCount' = Copied(useCount, mProductsByProducer[i].ptr)
                /\ range' = [range EXCEPT ![t].first = IterAt(mProductsByProducer, i + 1)]
                /\ ub' = ub
       ELSE /\ \E h \in Handles \cup {NullPtr} :
                  /\ out' = [out EXCEPT ![t] = Append(@, h)]
                  /\ useCount' = Copied(useCount, h)
            /\ \E i \in 1..(Len(mProductsByProducer) + 1) :
                  range' = [range EXCEPT ![t].first = IterAt(mProductsByProducer, i)]
            /\ ub' = TRUE
    /\ cntFound' = [cntFound EXCEPT ![t] = @ + 1]
    /\ UNCHANGED <<heap, mMutex, indexes, pc, arg, it, success, ret, present, atLock>>

\* The loop's exit: return cntFound;
\* Mutant: the loop exit takes the (non-recursive) mutex a second time.
FindProductsByProducerExit_LocksAgain(t) ==
    /\ pc[t] = "fbp_loop"
    /\ range[t].first = range[t].second
    /\ Lock(t, "fbp_return")
    /\ ret' = [ret EXCEPT ![t] = cntFound[t]]
    /\ UNCHANGED <<heap, useCount, indexes, arg, it, success, range, out, cntFound,
                   ub, present>>

FindProductsByProducerExit(t) ==
    /\ pc[t] = "fbp_loop"
    /\ range[t].first = range[t].second
    /\ ret' = [ret EXCEPT ![t] = cntFound[t]]
    /\ pc' = [pc EXCEPT ![t] = "fbp_return"]
    /\ UNCHANGED <<heap, useCount, mMutex, indexes, arg, it, success, range, out, cntFound,
                   ub, present, atLock>>

FindProductsByProducerReturn(t) ==
    /\ pc[t] = "fbp_return"
    /\ useCount' = DroppedAll(useCount, out[t])
    /\ Unlock(t)
    /\ UNCHANGED <<heap, indexes, ub, present>>

\* ----------------------------------------------------- RemoveProductById
RemoveProductByIdCall(t) ==
    /\ pc[t] = "idle"
    /\ \E id \in Ids : Call(t, id, "rem_lock")
    /\ UNCHANGED useCount

\* Mutant: RemoveProductById takes no lock.
RemoveProductByIdLock_NoLock(t) ==
    /\ pc[t] = "rem_lock"
    /\ pc' = [pc EXCEPT ![t] = "rem_find"]
    /\ atLock' = <<mProductsByProducer, mProductsWithMetasById>>
    /\ UNCHANGED <<heap, useCount, mMutex, indexes, arg, locals, ub, present>>

RemoveProductByIdLock(t) ==
    /\ pc[t] = "rem_lock"
    /\ Lock(t, "rem_find")
    /\ UNCHANGED <<heap, useCount, indexes, arg, locals, ub, present>>

\* Mutant: the end() check is missing.
RemoveProductByIdFind_NoEndCheck(t) ==
    /\ pc[t] = "rem_find"
    /\ it' = [it EXCEPT ![t] = MapFind(mProductsWithMetasById, arg[t])]
    /\ pc' = [pc EXCEPT ![t] = "rem_eraseByProducer"]
    /\ ret' = [ret EXCEPT ![t] = 0]
    /\ UNCHANGED <<heap, useCount, mMutex, indexes, arg, success, range, out, cntFound,
                   ub, present, atLock>>

\* Mutant: the early `return 0` leaves without releasing the mutex (as a
\* hand-written lock()/unlock() pair that misses this path would).
RemoveProductByIdFind_LeaksLock(t) ==
    /\ pc[t] = "rem_find"
    /\ LET i == MapFind(mProductsWithMetasById, arg[t])
       IN  IF i = EndIt
           THEN /\ pc' = [pc EXCEPT ![t] = "idle"]
                /\ arg' = [arg EXCEPT ![t] = 0]
                /\ UNCHANGED <<it, ret>>
           ELSE /\ pc' = [pc EXCEPT ![t] = "rem_eraseByProducer"]
                /\ it' = [it EXCEPT ![t] = i]
                /\ ret' = [ret EXCEPT ![t] = 0]
                /\ arg' = arg
    /\ UNCHANGED <<heap, useCount, mMutex, indexes, success, range, out, cntFound,
                   ub, present, atLock>>

\* auto it = mProductsWithMetasById.find(id);
\* if (it == mProductsWithMetasById.end()) { return 0; }
RemoveProductByIdFind(t) ==
    /\ pc[t] = "rem_find"
    /\ LET i == MapFind(mProductsWithMetasById, arg[t])
       IN  /\ it' = [it EXCEPT ![t] = i]
           /\ pc' = [pc EXCEPT ![t] =
                        IF i = EndIt THEN "rem_return" ELSE "rem_eraseByProducer"]
           /\ ret' = [ret EXCEPT ![t] = 0]
    /\ UNCHANGED <<heap, useCount, mMutex, indexes, arg, success, range, out, cntFound,
                   ub, present, atLock>>

\* Mutant: erase(key) in place of erase(iterator), every node of the
\* product's producer goes.
RemoveProductByIdEraseByProducer_ByKey(t) ==
    /\ pc[t] = "rem_eraseByProducer"
    /\ it[t] \in DOMAIN mProductsWithMetasById
    /\ mProductsByProducer' =
          SelectSeq(mProductsByProducer,
                    LAMBDA e : e.key # heap[mProductsWithMetasById[it[t]].pProduct].producer)
    /\ useCount' = NodesChanged(useCount, mProductsByProducer, mProductsByProducer')
    /\ pc' = [pc EXCEPT ![t] = "rem_eraseById"]
    /\ UNCHANGED <<heap, mMutex, mProductsWithMetasById, arg, locals, ub, present, atLock>>

\* mProductsByProducer.erase(it->second.meta.it_productsByProducer);
\* Erasing through an iterator that designates no node (or reading it through
\* an `it` whose element is gone) is undefined: the multimap may be left as
\* it is or lose any node.
RemoveProductByIdEraseByProducer(t) ==
    /\ pc[t] = "rem_eraseByProducer"
    /\ IF /\ it[t] \in DOMAIN mProductsWithMetasById
          /\ IsNode(mProductsByProducer,
                    mProductsWithMetasById[it[t]].it_productsByProducer)
       THEN /\ mProductsByProducer' =
                  MultimapErase(mProductsByProducer,
                                mProductsWithMetasById[it[t]].it_productsByProducer)
            /\ ub' = ub
       ELSE /\ \/ mProductsByProducer' = mProductsByProducer
               \/ \E i \in 1..Len(mProductsByProducer) :
                     mProductsByProducer' =
                        MultimapErase(mProductsByProducer, mProductsByProducer[i].node)
            /\ ub' = TRUE
    /\ useCount' = NodesChanged(useCount, mProductsByProducer, mProductsByProducer')
    /\ pc' = [pc EXCEPT ![t] = "rem_eraseById"]
    /\ UNCHANGED <<heap, mMutex, mProductsWithMetasById, arg, locals, present, atLock>>

\* mProductsWithMetasById.erase(it);  return 1;
RemoveProductByIdEraseById(t) ==
    /\ pc[t] = "rem_eraseById"
    /\ mProductsWithMetasById' = MapErase(mProductsWithMetasById, it[t])
    /\ ub' = (ub \/ it[t] \notin DOMAIN mProductsWithMetasById)
    /\ useCount' = Dropped(useCount,
                           IF it[t] \in DOMAIN mProductsWithMetasById
                           THEN mProductsWithMetasById[it[t]].pProduct
                           ELSE NullPtr)
    /\ ret' = [ret EXCEPT ![t] = 1]
    /\ pc' = [pc EXCEPT ![t] = "rem_return"]
    /\ UNCHANGED <<heap, mMutex, mProductsByProducer, arg, it, success, range, out,
                   cntFound, present, atLock>>

RemoveProductByIdReturn(t) ==
    /\ pc[t] = "rem_return"
    /\ present' = IF ret[t] = 1 THEN [present EXCEPT ![arg[t]] = NullPtr] ELSE present
    /\ Unlock(t)
    /\ UNCHANGED <<heap, useCount, indexes, ub>>

\* ------------------------------------------------------------------ Spec
Next ==
    \E t \in Threads :
        \/ AddProductCall(t)
        \/ AddProductLock(t)
        \/ AddProductEmplaceById(t)
        \/ AddProductEmplaceByProducer(t)
        \/ AddProductReturn(t)
        \/ FindProductByIdCall(t)
        \/ FindProductByIdLock(t)
        \/ FindProductByIdFind(t)
        \/ FindProductByIdReturn(t)
        \/ FindProductsByProducerCall(t)
        \/ FindProductsByProducerLock(t)
        \/ FindProductsByProducerEqualRange(t)
        \/ FindProductsByProducerCopy(t)
        \/ FindProductsByProducerExit(t)
        \/ FindProductsByProducerReturn(t)
        \/ RemoveProductByIdCall(t)
        \/ RemoveProductByIdLock(t)
        \/ RemoveProductByIdFind(t)
        \/ RemoveProductByIdEraseByProducer(t)
        \/ RemoveProductByIdEraseById(t)
        \/ RemoveProductByIdReturn(t)

Spec == Init /\ [][Next]_vars

\* ------------------------------------------- AddProduct, empty pointer
\* A caller breaks the precondition and passes an empty ProductPtr.  What
\* assert(pProduct) does is decided by the build: with assertions it aborts
\* the process, with NDEBUG the macro expands to nothing and the body runs.
\* (For a non-empty pointer the assertion holds in either build and
\* AddProductCall goes on to the lock.)
AddProductCallNull(t) ==
    /\ pc[t] = "idle"
    /\ Call(t, NullPtr, "add_assert")
    /\ UNCHANGED useCount

\* The process is gone: no thread takes another step.
Terminated(how) == [u \in Threads |-> how]

\* assert(pProduct), assertions enabled: abort().
AddProductAssertAborts(t) ==
    /\ pc[t] = "add_assert"
    /\ arg[t] = NullPtr
    /\ pc' = Terminated("aborted")
    /\ UNCHANGED <<heap, useCount, mMutex, indexes, arg, locals, ub, present, atLock>>

\* assert(pProduct), NDEBUG: nothing is checked.
AddProductAssertCompiledOut(t) ==
    /\ pc[t] = "add_assert"
    /\ pc' = [pc EXCEPT ![t] = "add_lock"]
    /\ UNCHANGED <<heap, useCount, mMutex, indexes, arg, locals, ub, present, atLock>>

\* pProduct->id through the empty pointer is undefined: the process may
\* crash there, the mutex held, or any id may be read and emplaced.
AddProductEmplaceByIdNull(t) ==
    /\ pc[t] = "add_emplaceById"
    /\ arg[t] = NullPtr
    /\ ub' = TRUE
    /\ \/ /\ pc' = Terminated("crashed")
          /\ UNCHANGED <<mProductsWithMetasById, it, success>>
       \/ \E id \in Ids :
             /\ mProductsWithMetasById' =
                   MapEmplace(mProductsWithMetasById, id, ProductWithMeta(NullPtr))
             /\ it' = [it EXCEPT ![t] = id]
             /\ success' = [success EXCEPT ![t] = id \notin DOMAIN mProductsWithMetasById]
             /\ pc' = [pc EXCEPT ![t] =
                          IF id \notin DOMAIN mProductsWithMetasById
                          THEN "add_emplaceByProducer" ELSE "add_return"]
    /\ UNCHANGED <<heap, useCount, mMutex, mProductsByProducer, arg, range, out,
                   cntFound, ret, present, atLock>>

\* pProduct->producer through the empty pointer: as above, for the multimap.
AddProductEmplaceByProducerNull(t) ==
    /\ pc[t] = "add_emplaceByProducer"
    /\ arg[t] = NullPtr
    /\ ub' = TRUE
    /\ \/ /\ pc' = Terminated("crashed")
          /\ UNCHANGED indexes
       \/ \E p \in Producers :
             /\ mProductsByProducer' = MultimapEmplace(mProductsByProducer, p, NullPtr)
             /\ mProductsWithMetasById' =
                   IF it[t] \in DOMAIN mProductsWithMetasById
                   THEN [mProductsWithMetasById EXCEPT
                           ![it[t]].it_productsByProducer = NewNode(mProductsByProducer)]
                   ELSE mProductsWithMetasById
             /\ pc' = [pc EXCEPT ![t] = "add_return"]
    /\ UNCHANGED <<heap, useCount, mMutex, arg, locals, present, atLock>>

NextNull ==
    \/ Next
    \/ \E t \in Threads :
          \/ AddProductCallNull(t)
          \/ AddProductAssertAborts(t)
          \/ AddProductAssertCompiledOut(t)
          \/ AddProductEmplaceByIdNull(t)
          \/ AddProductEmplaceByProducerNull(t)

SpecNull == Init /\ [][NextNull]_vars

\* ------------------------------------------- Callers that keep results
\* ~lock_guard at the return, seen from a caller that keeps what the call
\* gave it: the returned value, the filled vector and (kept) what it still
\* has of its argument outlive the call; the frame's iterators die.
UnlockKeep(t, hold, kept) ==
    /\ mMutex' = 0
    /\ atLock' = NoIndexes
    /\ pc' = [pc EXCEPT ![t] = hold]
    /\ it' = [it EXCEPT ![t] = EndIt]
    /\ range' = [range EXCEPT ![t] = NoRange]
    /\ cntFound' = [cntFound EXCEPT ![t] = 0]
    /\ arg' = [arg EXCEPT ![t] = kept]
    /\ UNCHANGED <<success, out, ret>>

\* FindProductById returns a non-empty ProductPtr and the caller keeps it.
FindProductByIdReturnKeep(t) ==
    /\ pc[t] = "fid_return"
    /\ ret[t] # NullPtr
    /\ UnlockKeep(t, "fid_hold", 0)
    /\ UNCHANGED <<heap, useCount, indexes, ub, present>>

\* FindProductsByProducer has found items and the caller keeps the vector.
FindProductsByProducerReturnKeep(t) ==
    /\ pc[t] = "fbp_return"
    /\ out[t] # <<>>
    /\ UnlockKeep(t, "fbp_hold", 0)
    /\ UNCHANGED <<heap, useCount, indexes, ub, present>>

\* The caller lets go of what it kept.
Release(t) ==
    /\ pc[t] \in {"fid_hold", "fbp_hold"}
    /\ useCount' = IF pc[t] = "fid_hold"
                   THEN Dropped(useCount, ret[t])
                   ELSE DroppedAll(useCount, out[t])
    /\ pc' = [pc EXCEPT ![t] = "idle"]
    /\ arg' = [arg EXCEPT ![t] = 0]
    /\ ret' = [ret EXCEPT ![t] = 0]
    /\ out' = [out EXCEPT ![t] = <<>>]
    /\ UNCHANGED <<heap, mMutex, indexes, it, success, range, cntFound, ub,
                   present, atLock>>

NextHold ==
    \/ Next
    \/ \E t \in Threads :
          \/ FindProductByIdReturnKeep(t)
          \/ FindProductsByProducerReturnKeep(t)
          \/ Release(t)

SpecHold == Init /\ [][NextHold]_vars

\* ------------------------------------------------------------ Scheduling
\* The statements of a method body: straight-line code and one bounded loop,
\* always able to run once the lock is held.
BodyStep(t) ==
    \/ AddProductEmplaceById(t)
    \/ AddProductEmplaceByProducer(t)
    \/ AddProductReturn(t)
    \/ FindProductByIdFind(t)
    \/ FindProductByIdReturn(t)
    \/ FindProductsByProducerEqualRange(t)
    \/ FindProductsByProducerCopy(t)
    \/ FindProductsByProducerExit(t)
    \/ FindProductsByProducerReturn(t)
    \/ RemoveProductByIdFind(t)
    \/ RemoveProductByIdEraseByProducer(t)
    \/ RemoveProductByIdEraseById(t)
    \/ RemoveProductByIdReturn(t)

\* The lock_guard constructor of each method.
LockStep(t) ==
    \/ AddProductLock(t)
    \/ FindProductByIdLock(t)
    \/ FindProductsByProducerLock(t)
    \/ RemoveProductByIdLock(t)

\* A fair scheduler: a thread that can run its next statement eventually runs
\* it, and a thread blocked in mutex::lock() is not passed over for ever when
\* the mutex keeps becoming free.  Threads are free never to call.
Fairness ==
    \A t \in Threads : WF_vars(BodyStep(t)) /\ SF_vars(LockStep(t))

SpecFair == Spec /\ Fairness

\* -------------------------------------- Callers that keep their own item
\* MakeProduct gives the caller a shared_ptr<Product>; AddProduct receives a
\* shared_ptr<const Product> converted from it.  The caller's pointer is to
\* the same object and is not const.

\* AddProduct returns and the caller keeps the pointer it passed.
AddProductReturnKeep(t) ==
    /\ pc[t] = "add_return"
    /\ present' = IF success[t]
                  THEN [present EXCEPT ![it[t]] = arg[t]]
                  ELSE present
    /\ UnlockKeep(t, "add_hold", arg[t])
    /\ UNCHANGED <<heap, useCount, indexes, ub>>

\* The caller assigns to a field of the Product through its own pointer.
Mutate(t) ==
    /\ pc[t] = "add_hold"
    /\ Cardinality({h \in Handles \ {arg[t]} : heap[h] # ProductTable[h]}) < MaxMutated
    /\ \E i \in {ProductTable[h].id : h \in Handles},
          p \in {ProductTable[h].producer : h \in Handles} :
          /\ [id |-> i, producer |-> p] # heap[arg[t]]
          /\ heap' = [heap EXCEPT ![arg[t]] = [id |-> i, producer |-> p]]
    /\ UNCHANGED <<useCount, mMutex, indexes, pc, arg, locals, ub, present, atLock>>

\* The caller's pointer goes out of scope.
ReleaseProduct(t) ==
    /\ pc[t] = "add_hold"
    /\ useCount' = Dropped(useCount, arg[t])
    /\ pc' = [pc EXCEPT ![t] = "idle"]
    /\ arg' = [arg EXCEPT ![t] = 0]
    /\ success' = [success EXCEPT ![t] = FALSE]
    /\ UNCHANGED <<heap, mMutex, indexes, it, range, out, cntFound, ret, ub,
                   present, atLock>>

NextMut ==
    \/ Next
    \/ \E t \in Threads :
          \/ AddProductReturnKeep(t)
          \/ Mutate(t)
          \/ ReleaseProduct(t)

SpecMut == Init /\ [][NextMut]_vars

\* ------------------------------------------------------- Races on one id
\* Every thread adds an item of its own and all items have the same id (the
\* producers alternate); when all adds have returned, every thread removes
\* that id.  Callers keep what the calls returned.
RaceId == 1

ProductTableRace ==
    [h \in Handles |-> [id |-> RaceId, producer |-> ((h - 1) % 2) + 1]]

AddProductCallRace(t) ==
    /\ pc[t] = "idle"
    /\ \E h \in Handles :
          /\ \A u \in Threads \ {t} : arg[u] # h
          /\ Call(t, h, "add_lock")
          /\ useCount' = Copied(useCount, h)

\* All adds have returned.
AllReturned ==
    \A u \in Threads :
        pc[u] \in {"add_hold", "rem_lock", "rem_find", "rem_eraseByProducer",
                   "rem_eraseById", "rem_return", "rem_hold"}

\* The caller lets go of its item and calls RemoveProductById.
RemoveProductByIdCallRace(t) ==
    /\ pc[t] = "add_hold"
    /\ AllReturned
    /\ pc' = [pc EXCEPT ![t] = "rem_lock"]
    /\ arg' = [arg EXCEPT ![t] = RaceId]
    /\ success' = [success EXCEPT ![t] = FALSE]
    /\ useCount' = Dropped(useCount, arg[t])
    /\ UNCHANGED <<heap, mMutex, indexes, it, range, out, cntFound, ret, ub,
                   present, atLock>>

\* RemoveProductById returns and the caller keeps the returned count.
RemoveProductByIdReturnKeep(t) ==
    /\ pc[t] = "rem_return"
    /\ present' = IF ret[t] = 1 THEN [present EXCEPT ![arg[t]] = NullPtr] ELSE present
    /\ UnlockKeep(t, "rem_hold", arg[t])
    /\ UNCHANGED <<heap, useCount, indexes, ub>>

InitRace ==
    /\ heap = ProductTableRace
    /\ InitWarehouse
    /\ InitLocals

NextRace ==
    \E t \in Threads :
        \/ AddProductCallRace(t)
        \/ AddProductLock(t)
        \/ AddProductEmplaceById(t)
        \/ AddProductEmplaceByProducer(t)
        \/ AddProductReturnKeep(t)
        \/ RemoveProductByIdCallRace(t)
        \/ RemoveProductByIdLock(t)
        \/ RemoveProductByIdFind(t)
        \/ RemoveProductByIdEraseByProducer(t)
        \/ RemoveProductByIdEraseById(t)
        \/ RemoveProductByIdReturnKeep(t)

SpecRace == InitRace /\ [][NextRace]_vars

\* ------------------------------------------------------------ Scenario E
\* Scenario E of the specification: thread t adds the product of handle t
\* (pairwise distinct ids, one producer) once, all threads concurrently; when
\* every add has returned true the threads query the catalog.
ProductE(t) == t

AllAdded ==
    \A u \in Threads : present[heap[ProductE(u)].id] = ProductE(u)

AddProductCallE(t) ==
    /\ pc[t] = "idle"
    /\ present[heap[ProductE(t)].id] = NullPtr
    /\ Call(t, ProductE(t), "add_lock")
    /\ useCount' = Copied(useCount, ProductE(t))

FindProductByIdCallE(t) ==
    /\ pc[t] = "idle"
    /\ AllAdded
    /\ \E u \in Threads : Call(t, heap[ProductE(u)].id, "fid_lock")
    /\ UNCHANGED useCount

FindProductsByProducerCallE(t) ==
    /\ pc[t] = "idle"
    /\ AllAdded
    /\ \E u \in Threads : Call(t, heap[ProductE(u)].producer, "fbp_lock")
    /\ UNCHANGED useCount

InitE ==
    /\ heap = ProductTableE
    /\ InitWarehouse
    /\ InitLocals

NextE ==
    \E t \in Threads :
        \/ AddProductCallE(t)
        \/ AddProductLock(t)
        \/ AddProductEmplaceById(t)
        \/ AddProductEmplaceByProducer(t)
        \/ AddProductReturn(t)
        \/ FindProductByIdCallE(t)
        \/ FindProductByIdLock(t)
        \/ FindProductByIdFind(t)
        \/ FindProductByIdReturn(t)
        \/ FindProductsByProducerCallE(t)
        \/ FindProductsByProducerLock(t)
        \/ FindProductsByProducerEqualRange(t)
        \/ FindProductsByProducerCopy(t)
        \/ FindProductsByProducerExit(t)
        \/ FindProductsByProducerReturn(t)

SpecE == InitE /\ [][NextE]_vars

\* ================================================================ claims
\* Vocabulary of the claims.

\* The elements of a sequence.
Range(s) == {s[i] : i \in 1..Len(s)}

\* The nodes of the secondary index that hold pointer p.
NodesOf(p) ==
    {i \in 1..Len(mProductsByProducer) : mProductsByProducer[i].ptr = p}

\* The slots of the primary index that hold pointer p.
SlotsOf(p) ==
    {id \in DOMAIN mProductsWithMetasById : mProductsWithMetasById[id].pProduct = p}

\* I1: the two indexes cross-reference each other one to one.
CrossIndexed ==
    /\ \A id \in DOMAIN mProductsWithMetasById :
          LET p == mProductsWithMetasById[id].pProduct
          IN  /\ Cardinality(NodesOf(p)) = 1
              /\ \A i \in NodesOf(p) : mProductsByProducer[i].key = heap[p].producer
    /\ \A i \in 1..Len(mProductsByProducer) :
          Cardinality(SlotsOf(mProductsByProducer[i].ptr)) = 1
    /\ Len(mProductsByProducer) = Cardinality(DOMAIN mProductsWithMetasById)

\* Thread t is between the two index updates of an add or of a remove.
MidUpdate(t) == pc[t] \in {"add_emplaceByProducer", "rem_eraseById"}

\* Thread t has called a method and has not yet taken the lock.
Waiting(t) == pc[t] \in {"add_lock", "fid_lock", "fbp_lock", "rem_lock"}

\* Thread t is executing the body of a method.
InBody(t) ==
    pc[t] \in {"add_emplaceById", "add_emplaceByProducer", "add_return",
               "fid_find", "fid_return",
               "fbp_equalRange", "fbp_loop", "fbp_return",
               "rem_find", "rem_eraseByProducer", "rem_eraseById", "rem_return"}

\* Thread t is about to execute a statement that reads an index.
Reading(t) ==
    pc[t] \in {"add_emplaceById", "fid_find", "fbp_equalRange", "fbp_loop", "rem_find"}

\* The Present items (by the history of successful adds and removes) of producer p.
PresentOf(p) ==
    {present[i] : i \in {j \in Ids : /\ present[j] # NullPtr
                                     /\ heap[present[j]].producer = p}}

\* The items stored in the primary index whose producer is p.
StoredOf(p) ==
    {mProductsWithMetasById[i].pProduct :
        i \in {j \in DOMAIN mProductsWithMetasById :
                  heap[mProductsWithMetasById[j].pProduct].producer = p}}

\* Both indexes as they were when the running call took the lock.
ByProducerAtLock == IF atLock = NoIndexes THEN <<>> ELSE atLock[1]
ByIdAtLock == IF atLock = NoIndexes THEN EmptyMap ELSE atLock[2]
IndexesUnchanged ==
    /\ atLock # NoIndexes
    /\ mProductsByProducer = ByProducerAtLock
    /\ mProductsWithMetasById = ByIdAtLock

\* C1 (cross-index consistency, I1/P5): whenever no call is between its two
\* index updates - in particular after every completed call - every item of
\* the primary index has exactly one node in the secondary index, filed under
\* its own producer, every secondary node belongs to exactly one primary item,
\* and both indexes hold the same number of entries.
C1_CrossIndexConsistency ==
    (\A t \in Threads : ~MidUpdate(t)) => CrossIndexed

\* Two adds and a remove have completed: the node of the second add is the
\* only one left, and no call is running.
C1_Witness ==
    /\ \A t \in Threads : pc[t] = "idle"
    /\ Len(mProductsByProducer) = 1
    /\ mProductsByProducer[1].node = 2

\* C2 (duplicate-id rejection): an AddProduct whose item's id is Present
\* returns false with both indexes as they were at its start, the id still
\* looked up to the first item's handle; an AddProduct whose id is not Present
\* returns true.
C2_DuplicateIdRejected ==
    \A t \in Threads :
        pc[t] = "add_return" =>
            LET id == heap[arg[t]].id
            IN  IF present[id] # NullPtr
                THEN /\ ~success[t]
                     /\ IndexesUnchanged
                     /\ LookupById(mProductsWithMetasById, id) = present[id]
                ELSE success[t]

\* An add is rejected whose item differs from the stored one in handle and
\* in producer.
C2_Witness ==
    \E t \in Threads :
        /\ pc[t] = "add_return"
        /\ ~success[t]
        /\ present[heap[arg[t]].id] \notin {NullPtr, arg[t]}
        /\ heap[present[heap[arg[t]].id]].producer # heap[arg[t]].producer

\* C3 (grouping correctness, I3/P3): FindProductsByProducer(p) writes exactly
\* the Present items of producer p, each once, and returns how many it wrote.
C3_GroupingCorrect ==
    \A t \in Threads :
        pc[t] = "fbp_return" =>
            /\ Range(out[t]) = PresentOf(arg[t])
            /\ Cardinality(Range(out[t])) = Len(out[t])
            /\ ret[t] = Len(out[t])

\* A query returns one item of its producer while an item of another
\* producer is stored next to it.
C3_Witness ==
    \E t \in Threads :
        /\ pc[t] = "fbp_return"
        /\ ret[t] = 1
        /\ Len(mProductsByProducer) = 2

\* C4 (lookup correctness, P2): FindProductById(x) returns the handle passed
\* to the most recent successful add of x if no successful remove of x
\* followed it, and the empty pointer otherwise (also for an id never added).
C4_LookupCorrect ==
    \A t \in Threads :
        pc[t] = "fid_return" => ret[t] = present[arg[t]]

\* A lookup finds an item while another id, whose node was allocated
\* earlier, has been removed again.
C4_Witness ==
    \E t \in Threads :
        /\ pc[t] = "fid_return"
        /\ ret[t] # NullPtr
        /\ Len(mProductsByProducer) = 1
        /\ mProductsByProducer[1].node = 2

\* C5 (removal of a Present item): RemoveProductById(x) with x Present
\* returns 1; x is then looked up empty, the group of x's producer holds
\* exactly the other Present items of that producer, every other id is looked
\* up as before, and the indexes are those of its start less x's two entries.
C5_RemovePresent ==
    \A t \in Threads :
        (pc[t] = "rem_return" /\ present[arg[t]] # NullPtr) =>
            LET x == arg[t]
                h == present[x]
            IN  /\ ret[t] = 1
                /\ LookupById(mProductsWithMetasById, x) = NullPtr
                /\ GroupOf(mProductsByProducer, heap[h].producer)
                      = PresentOf(heap[h].producer) \ {h}
                /\ \A y \in Ids \ {x} :
                      LookupById(mProductsWithMetasById, y) = present[y]
                /\ DOMAIN mProductsWithMetasById = DOMAIN ByIdAtLock \ {x}
                /\ \A y \in DOMAIN mProductsWithMetasById :
                      mProductsWithMetasById[y] = ByIdAtLock[y]
                /\ mProductsByProducer
                      = SelectSeq(ByProducerAtLock, LAMBDA e : e.ptr # h)

\* A remove has taken one of two items of the same producer.
C5_Witness ==
    \E t \in Threads :
        /\ pc[t] = "rem_return"
        /\ ret[t] = 1
        /\ Len(mProductsByProducer) = 1
        /\ mProductsByProducer[1].key = heap[present[arg[t]]].producer

\* C6 (removal idempotence, P4): RemoveProductById returns 0 or 1, and on an
\* id that is not Present (never added, or removed and not added again) it
\* returns 0 with both indexes as they were at its start.
C6_RemoveIdempotent ==
    \A t \in Threads :
        pc[t] = "rem_return" =>
            /\ ret[t] \in {0, 1}
            /\ present[arg[t]] = NullPtr => (ret[t] = 0 /\ IndexesUnchanged)

\* A remove returns 0 for an id that was stored and removed before (its node
\* is gone, the node allocated after it is still there).
C6_Witness ==
    \E t \in Threads :
        /\ pc[t] = "rem_return"
        /\ ret[t] = 0
        /\ Len(mProductsByProducer) = 1
        /\ mProductsByProducer[1].node = 2
        /\ heap[mProductsByProducer[1].ptr].id # arg[t]
        /\ arg[t] \in {heap[h].id : h \in Handles}

\* C7 (atomicity of the two-index update): a thread about to read an index
\* always finds the two indexes cross-referencing one to one, while another
\* thread may have called and wait; and an add or remove about to return has
\* changed both indexes or neither.
C7_AtomicUpdate ==
    /\ \A t \in Threads : Reading(t) => CrossIndexed
    /\ \A t \in Threads :
          pc[t] \in {"add_return", "rem_return"} =>
              (mProductsByProducer = ByProducerAtLock
                  <=> mProductsWithMetasById = ByIdAtLock)

\* One thread is between the two index updates (the indexes disagree) while
\* another has called a method and waits for the lock.
C7_Witness ==
    \E t, u \in Threads :
        /\ MidUpdate(t)
        /\ ~CrossIndexed
        /\ Waiting(u)

\* C8 (atomic snapshot): what FindProductsByProducer(p) returns is the set of
\* stored items of producer p in the single state the catalog has been in
\* from the call's taking the lock to its completion.
C8_AtomicSnapshot ==
    \A t \in Threads :
        pc[t] = "fbp_return" =>
            /\ IndexesUnchanged
            /\ Range(out[t]) = StoredOf(arg[t])
            /\ Range(out[t]) = GroupOf(ByProducerAtLock, arg[t])

\* A query returns an item while another thread has called the removal of
\* that item and waits.
C8_Witness ==
    \E t, u \in Threads :
        /\ pc[t] = "fbp_return"
        /\ pc[u] = "rem_lock"
        /\ \E i \in 1..Len(out[t]) : heap[out[t][i]].id = arg[u]

\* C9 (no lost updates, Scenario E): each of the concurrent adds returns
\* true; thereafter FindProductsByProducer returns exactly the N items and
\* FindProductById returns the handle added under each id.
C9_NoLostUpdates ==
    \A t \in Threads :
        /\ pc[t] = "add_return" => success[t]
        /\ pc[t] = "fbp_return" =>
              /\ Range(out[t]) = {ProductE(u) : u \in Threads}
              /\ ret[t] = NumThreads
        /\ pc[t] = "fid_return" =>
              /\ ret[t] # NullPtr
              /\ heap[ret[t]].id = arg[t]
              /\ ret[t] \in {ProductE(u) : u \in Threads}

\* After the adds a query returns all N items.
C9_Witness ==
    \E t \in Threads :
        /\ pc[t] = "fbp_return"
        /\ ret[t] = NumThreads
        /\ AllAdded

\* C10 (mutual exclusion): at most one thread is in the body of a method, a
\* thread in a body owns the mutex, and the mutex is free whenever no thread
\* is in a body, whichever return path the last call took.
C10_MutualExclusion ==
    /\ Cardinality({t \in Threads : InBody(t)}) <= 1
    /\ \A t \in Threads : InBody(t) => mMutex = t
    /\ (\A t \in Threads : ~InBody(t)) => mMutex = 0

\* A remove is on its early return path, owning the mutex, while another
\* thread waits for it.
C10_Witness ==
    \E t, u \in Threads :
        /\ pc[t] = "rem_return"
        /\ ret[t] = 0
        /\ mMutex = t
        /\ Waiting(u)

\* C11 (empty handle to add): an AddProduct called with an empty pointer
\* fails at its precondition check: it gets no further than the assertion,
\* which aborts the process before the lock is taken and before the pointer
\* is dereferenced, so it never takes the lock, never changes an index and
\* never returns a value.
C11_NullHandleFailsFast ==
    /\ \A t \in Threads :
          arg[t] = NullPtr => pc[t] \in {"idle", "add_assert", "aborted"}
    /\ ~ub

\* The ProductPtr copies that thread t or its caller owns and that point to h:
\* the argument of a running add, the pointer a lookup returns, the vector a
\* producer query fills.
RefsOf(t, h) ==
    (IF pc[t] \in {"add_lock", "add_emplaceById", "add_emplaceByProducer", "add_return"}
        /\ arg[t] = h THEN 1 ELSE 0)
    + (IF pc[t] \in {"fid_return", "fid_hold"} /\ ret[t] = h THEN 1 ELSE 0)
    + Cardinality({i \in 1..Len(out[t]) : out[t][i] = h})

\* The same, summed over the threads 1..n.
RECURSIVE SumRefs(_, _)
SumRefs(n, h) ==
    IF n = 0 THEN 0 ELSE RefsOf(n, h) + SumRefs(n - 1, h)

\* The handles a caller holds from a completed query.
HeldBy(t) ==
    IF pc[t] = "fid_hold" THEN {ret[t]} \ {NullPtr}
    ELSE IF pc[t] = "fbp_hold" THEN Range(out[t])
    ELSE {}

\* C12 (handle stability, I4): the catalog owns exactly one reference per
\* index entry of an item and nothing else, so a remove drops exactly those
\* two; every handle a query returned keeps its item alive (use count at
\* least one) for as long as the caller holds it, whether or not the item has
\* been removed since.
C12_HandleStability ==
    /\ \A h \in Handles :
          useCount[h] = Cardinality(SlotsOf(h)) + Cardinality(NodesOf(h))
                        + SumRefs(NumThreads, h)
    /\ \A t \in Threads : \A h \in HeldBy(t) : useCount[h] >= 1

\* A caller still holds the handle a lookup returned, the item has since been
\* removed from both indexes, and the caller's reference is the last one.
C12_Witness ==
    \E t \in Threads :
        /\ pc[t] = "fid_hold"
        /\ ret[t] # NullPtr
        /\ SlotsOf(ret[t]) = {}
        /\ NodesOf(ret[t]) = {}
        /\ useCount[ret[t]] = 1
        /\ \A u \in Threads \ {t} : pc[u] = "idle"

Querying(t) ==
    pc[t] \in {"fid_find", "fid_return", "fbp_equalRange", "fbp_loop", "fbp_return"}

\* C14 (queries are read-only): from the moment FindProductById or
\* FindProductsByProducer has the lock until it returns, whether it finds
\* something or not, both indexes are exactly as they were when it took the
\* lock, and so is the set of Present items; the calls that change the
\* catalog therefore see the same state with or without queries in between.
C14_QueriesReadOnly ==
    \A t \in Threads :
        Querying(t) =>
            /\ IndexesUnchanged
            /\ \A id \in Ids : present[id] = LookupById(ByIdAtLock, id)

\* A producer query is about to return the two items of a producer, and
\* a lookup by the other thread is waiting for the lock.
C14_Witness ==
    \E t, u \in Threads :
        /\ pc[t] = "fbp_return"
        /\ Len(out[t]) = 2
        /\ pc[u] = "fid_lock"

\* C15 (item immutability while stored): the id and the producer of a stored
\* item do not change, so every secondary entry is filed under the current
\* producer of its item and every primary entry under the current id of its
\* item, also while the caller that added the item keeps its own pointer.
C15_ItemImmutability ==
    /\ \A i \in 1..Len(mProductsByProducer) :
          mProductsByProducer[i].key = heap[mProductsByProducer[i].ptr].producer
    /\ \A id \in DOMAIN mProductsWithMetasById :
          heap[mProductsWithMetasById[id].pProduct].id = id

\* The lock owner is between the two index updates of an add or a remove of
\* the entry stored under id.
Updating(id) ==
    \E t \in Threads : MidUpdate(t) /\ it[t] = id

\* C16 (back-reference validity): the iterator cached in the primary entry of
\* every stored item (outside the two-statement update of that very entry,
\* under the lock) is set, designates a live node of the secondary index, and
\* that node has the item's producer as key and the item's pointer as value;
\* adds and removes of other items never invalidate it and no invalid
\* iterator is ever used; a remove that has erased from the secondary index
\* has erased exactly the node of the item it removes.
C16_BackReferenceValid ==
    /\ ~ub
    /\ \A id \in DOMAIN mProductsWithMetasById :
          ~Updating(id) =>
             LET e == mProductsWithMetasById[id]
                 n == e.it_productsByProducer
             IN  /\ n # SingularIt
                 /\ IsNode(mProductsByProducer, n)
                 /\ \A i \in 1..Len(mProductsByProducer) :
                       mProductsByProducer[i].node = n =>
                          /\ mProductsByProducer[i].key = heap[e.pProduct].producer
                          /\ mProductsByProducer[i].ptr = e.pProduct
    /\ \A t \in Threads :
          (pc[t] = "rem_eraseById" /\ arg[t] \in DOMAIN ByIdAtLock) =>
             mProductsByProducer
                = SelectSeq(ByProducerAtLock,
                            LAMBDA e : e.ptr # ByIdAtLock[arg[t]].pProduct)

\* A remove has erased the first of two nodes of one producer; the node of
\* the other item is still where its back-reference says.
C16_Witness ==
    \E t \in Threads :
        /\ pc[t] = "rem_eraseById"
        /\ Len(ByProducerAtLock) = 2
        /\ ByProducerAtLock[1].key = ByProducerAtLock[2].key
        /\ Len(mProductsByProducer) = 1
        /\ mProductsByProducer[1].node = ByProducerAtLock[2].node

\* The lock owner has changed the primary entry of id in a successful add or
\* remove that has not returned yet.
Changing(id) ==
    \E t \in Threads :
        \/ pc[t] \in {"add_emplaceByProducer", "add_return"} /\ success[t] /\ it[t] = id
        \/ pc[t] = "rem_return" /\ ret[t] = 1 /\ arg[t] = id

\* C17 (re-add after removal): an id is stored exactly while it is Present,
\* which changes only in a successful add (to Present) and in a successful
\* remove (to Absent); an add of an item whose id is Absent - never added, or
\* removed with result 1 - returns true, the id is then looked up as the new
\* handle, the new item has one node, in the group of its own producer, and
\* an item that is not Present (a removed one) has no node in any group.
C17_ReAddAfterRemoval ==
    /\ \A id \in Ids :
          ~Changing(id) => LookupById(mProductsWithMetasById, id) = present[id]
    /\ \A t \in Threads :
          (pc[t] = "add_return" /\ present[heap[arg[t]].id] = NullPtr) =>
              /\ success[t]
              /\ LookupById(mProductsWithMetasById, heap[arg[t]].id) = arg[t]
              /\ Cardinality(NodesOf(arg[t])) = 1
              /\ \A i \in NodesOf(arg[t]) :
                    mProductsByProducer[i].key = heap[arg[t]].producer
    /\ \A h \in Handles :
          (/\ \A id \in Ids : present[id] # h
           /\ \A t \in Threads : ~(pc[t] = "add_return" /\ success[t] /\ arg[t] = h))
          => NodesOf(h) = {}

\* An add has succeeded on a catalog that held only the second-allocated
\* node when the call took the lock: the item of the first node was removed
\* before, the id added now is not the one still stored, so (two ids being in
\* use) it is the removed item's id; the new item is of another producer than
\* the one still stored.
C17_Witness ==
    \E t \in Threads :
        /\ pc[t] = "add_return"
        /\ success[t]
        /\ Len(ByProducerAtLock) = 1
        /\ ByProducerAtLock[1].node = 2
        /\ heap[arg[t]].producer # ByProducerAtLock[1].key
        /\ present[heap[arg[t]].id] = NullPtr

\* The threads whose add has returned true.
Winners == {t \in Threads : pc[t] = "add_hold" /\ success[t]}

\* C18 (racing adds of one id): when every thread has added an item of the
\* same, not Present id and all calls have returned, exactly one returned
\* true and all others false; the id is looked up as the winner's item and
\* the secondary index holds the winner's node and no other.  While the race
\* runs at most one add has succeeded.
C18_RacingAdds ==
    /\ Cardinality({t \in Threads :
                      pc[t] \in {"add_emplaceByProducer", "add_return", "add_hold"}
                      /\ success[t]}) <= 1
    /\ (\A t \in Threads : pc[t] = "add_hold") =>
          /\ Cardinality(Winners) = 1
          /\ \A t \in Winners :
                /\ LookupById(mProductsWithMetasById, RaceId) = arg[t]
                /\ Len(mProductsByProducer) = 1
                /\ mProductsByProducer[1].ptr = arg[t]
                /\ mProductsByProducer[1].key = heap[arg[t]].producer
                /\ \A p \in Producers :
                      GroupOf(mProductsByProducer, p)
                         = IF p = heap[arg[t]].producer THEN {arg[t]} ELSE {}

\* All adds have returned, the last thread won, and its item is of another
\* producer than the loser's item of thread 1.
C18_Witness ==
    /\ \A t \in Threads : pc[t] = "add_hold"
    /\ success[NumThreads]
    /\ ~success[1]
    /\ heap[arg[1]].producer # heap[arg[NumThreads]].producer

\* The threads whose remove has found the entry and erases or has erased it.
Erasers ==
    {t \in Threads : \/ pc[t] \in {"rem_eraseByProducer", "rem_eraseById"}
                     \/ pc[t] \in {"rem_return", "rem_hold"} /\ ret[t] = 1}

\* C19 (racing removes of one id): when every thread removes the same Present
\* id, at most one of them ever gets past the lookup to the two erasures, no
\* erasure goes through an invalid back-reference, and when all calls have
\* returned exactly one returned 1, all others 0, and both indexes are empty.
C19_RacingRemoves ==
    /\ ~ub
    /\ Cardinality(Erasers) <= 1
    /\ (\A t \in Threads : pc[t] = "rem_hold") =>
          /\ Cardinality({t \in Threads : ret[t] = 1}) = 1
          /\ \A t \in Threads : ret[t] \in {0, 1}
          /\ mProductsByProducer = <<>>
          /\ mProductsWithMetasById = EmptyMap

\* All removes have returned; the last thread's returned 1 and thread 1's
\* returned 0.
C19_Witness ==
    /\ \A t \in Threads : pc[t] = "rem_hold"
    /\ ret[NumThreads] = 1
    /\ ret[1] = 0
====
